---- MODULE Spec2Model ----
(***************************************************************************)
(* Model of the instrumented four-stage pipeline of                        *)
(* robcamer/llm-observability-otel: the traced_span decorator, _call_llm,  *)
(* the four agents, the LangGraph chain, the token counter, the prompt     *)
(* content logger and the lazy initialisation of the tracer.  Text is      *)
(* modelled as sequences of one-character strings, so that slicing,        *)
(* concatenation, len() and int() are computed.                            *)
(***************************************************************************)
EXTENDS Integers, Sequences, FiniteSets, TLC

VARIABLES
  env,                  \* os.environ, read with os.getenv
  req,                  \* the request being served (RunRequest), or NoRequest
  pc,                   \* position of the single-threaded program
  state,                \* the GraphState mapping of the request in flight
  node,                 \* the graph node that runs next / is running
  call,                 \* the traced_span wrapper invocation in flight
  caller,               \* what the wrapper's caller got from the last invocation
  spans,                \* every span started, in start order
  stack,                \* indices of the current spans (innermost last)
  _in_memory_spans,     \* spans handed to _InMemoryExporter.export, in end order
  _tracer_initialized,  \* instrumentation._tracer_initialized
  _token_counter,       \* instrumentation._token_counter and its accumulated sums
  telemetry,            \* the providers installed globally, _meter and _operation_duration
  threads,              \* the threads inside get_tracer (position and locals of each)
  history,              \* ghost: the calls made so far (for the claims only)
  response              \* what run_graph returned

vars ==
  << env, req, pc, state, node, call, caller, spans, stack, _in_memory_spans,
     _tracer_initialized, _token_counter, telemetry, threads, history, response >>

----------------------------------------------------------------------------
(* Bounds of the model *)

\* longest task text of a request (the planner prompt passes 80 characters at 47)
MaxTaskLen == 47
\* largest token count a response reports
MaxTokens == 2
\* number of add_llm_response_attributes calls in a behaviour of SpecTok
MaxCalls == 3
\* number of wrapper invocations in a behaviour of SpecWrap
MaxInvocations == 2
\* number of threads that call get_tracer() in SpecInit
MaxThreads == 2
\* number of get_tracer() calls each thread makes in SpecInit
MaxGetTracerCalls == 2

----------------------------------------------------------------------------
(* Text *)

None == [some |-> FALSE]
Some(v) == [some |-> TRUE, v |-> v]

\* the text of n characters c
Rep(c, n) == [i \in 1 .. n |-> c]

\* s[:n] for n >= 0
Prefix(s, n) == SubSeq(s, 1, IF n < Len(s) THEN n ELSE Len(s))

\* Python's s[:n]: a negative n counts from the end
Slice(s, n) ==
  IF n >= 0 THEN Prefix(s, n)
  ELSE Prefix(s, IF Len(s) + n > 0 THEN Len(s) + n ELSE 0)

Digits == <<"0", "1", "2", "3", "4", "5", "6", "7", "8", "9">>

\* str(n) for n >= 0, as the f-string formats len(work)
RECURSIVE Dec(_)
Dec(n) == IF n < 10 THEN <<Digits[n + 1]>> ELSE Dec(n \div 10) \o <<Digits[(n % 10) + 1]>>

UpperCase ==
  << "A", "B", "C", "D", "E", "F", "G", "H", "I", "J", "K", "L", "M",
     "N", "O", "P", "Q", "R", "S", "T", "U", "V", "W", "X", "Y", "Z" >>
LowerCase ==
  << "a", "b", "c", "d", "e", "f", "g", "h", "i", "j", "k", "l", "m",
     "n", "o", "p", "q", "r", "s", "t", "u", "v", "w", "x", "y", "z" >>

\* str.lower()
LowerChar(c) ==
  IF \E i \in DOMAIN UpperCase : UpperCase[i] = c
  THEN LowerCase[CHOOSE i \in DOMAIN UpperCase : UpperCase[i] = c]
  ELSE c
Lower(s) == [i \in DOMAIN s |-> LowerChar(s[i])]

\* str.strip() of blanks
RECURSIVE StripLeft(_)
StripLeft(s) == IF s # <<>> /\ Head(s) = " " THEN StripLeft(Tail(s)) ELSE s
RECURSIVE StripRight(_)
StripRight(s) ==
  IF s # <<>> /\ s[Len(s)] = " " THEN StripRight(SubSeq(s, 1, Len(s) - 1)) ELSE s
Strip(s) == StripRight(StripLeft(s))

IsDigit(c) == \E d \in DOMAIN Digits : Digits[d] = c
DigitValue(c) == (CHOOSE d \in DOMAIN Digits : Digits[d] = c) - 1

\* the digits of an int() literal: digits, with single underscores between them
WellFormedDigits(s) ==
  /\ s # <<>>
  /\ IsDigit(s[1]) /\ IsDigit(s[Len(s)])
  /\ \A i \in DOMAIN s : IsDigit(s[i]) \/ s[i] = "_"
  /\ \A i \in 1 .. (Len(s) - 1) : ~(s[i] = "_" /\ s[i + 1] = "_")

RECURSIVE DigitsValue(_, _)
DigitsValue(s, acc) ==
  IF s = <<>> THEN acc
  ELSE DigitsValue(Tail(s), IF Head(s) = "_" THEN acc ELSE 10 * acc + DigitValue(Head(s)))

\* int(s): the number, or ok = FALSE where int raises ValueError
ParseInt(s) ==
  LET b == Strip(s)
      signed == b # <<>> /\ Head(b) \in {"+", "-"}
      body == IF signed THEN Tail(b) ELSE b
  IN IF WellFormedDigits(body)
     THEN [ok |-> TRUE,
           v |-> IF signed /\ Head(b) = "-" THEN 0 - DigitsValue(body, 0)
                 ELSE DigitsValue(body, 0)]
     ELSE [ok |-> FALSE, v |-> 0]

Get(m, k, d) == IF k \in DOMAIN m THEN m[k] ELSE d
Put(m, k, v) == [a \in DOMAIN m \cup {k} |-> IF a = k THEN v ELSE m[a]]

PlannerTemplate ==
  <<
    "C","r","e","a","t","e"," ","a"," ","c","o","n","c","i","s","e"," ","2","-","s","t","e",
    "p"," ","p","l","a","n"," ","f","o","r",":"," " >>

WorkerTemplate ==
  <<
    "E","x","e","c","u","t","e"," ","t","h","e"," ","f","o","l","l","o","w","i","n","g"," ",
    "p","l","a","n"," ","a","n","d"," ","p","r","o","d","u","c","e"," ","a"," ","r","e","s",
    "u","l","t","."," ","P","l","a","n",":"," " >>

ReflectionTemplateHead ==
  <<
    "A","c","t"," ","a","s"," ","a"," ","s","e","n","i","o","r"," ","r","e","v","i","e","w",
    "e","r","."," ","P","r","o","v","i","d","e"," ","a"," ","t","e","r","s","e"," ","v","a",
    "l","i","d","a","t","i","o","n"," ","s","u","m","m","a","r","y"," ","a","n","d"," ","o",
    "n","e"," ","i","m","p","r","o","v","e","m","e","n","t"," ","s","u","g","g","e","s","t",
    "i","o","n","."," ","T","h","e"," ","c","u","r","r","e","n","t"," ","w","o","r","k"," ",
    "o","u","t","p","u","t"," ","(","l","e","n","=" >>

ReflectionTemplateMid ==
  <<
    ")"," ","i","s",":"," " >>

ReviewerTemplateHead ==
  <<
    "R","e","v","i","e","w"," ","t","h","e"," ","f","o","l","l","o","w","i","n","g"," ","w",
    "o","r","k"," ","t","a","k","i","n","g"," ","i","n","t","o"," ","a","c","c","o","u","n",
    "t"," ","p","r","i","o","r"," ","r","e","f","l","e","c","t","i","o","n","."," ","P","r",
    "o","v","i","d","e"," ","F","I","N","A","L"," ","s","u","m","m","a","r","y"," ","o","n",
    "l","y","."," ","W","o","r","k",":"," " >>

ReviewerTemplateMid ==
  <<
    "\n","R","e","f","l","e","c","t","i","o","n",":"," " >>

StubHead ==
  <<
    "[","s","t","u","b","-","r","e","s","p","o","n","s","e","]"," " >>

StubTail ==
  <<
    ".",".","." >>

FallbackHead ==
  <<
    "[","l","l","m","-","e","r","r","o","r","-","f","a","l","l","b","a","c","k","]"," " >>

----------------------------------------------------------------------------
(* Program constants *)

\* prompt[:80] in the stub response
StubPrefixLen == 80
\* max_tokens of the completion request
RequestMaxTokens == 256

----------------------------------------------------------------------------
(* Spans: the tracing backend as the code drives it *)

NewSpan(name) ==
  [name |-> name, status |-> "UNSET", description |-> <<>>,
   attrs |-> <<>>, events |-> <<>>, ended |-> FALSE]

SetAttr(span, k, v) == [span EXCEPT !.attrs = Put(@, k, v)]
SetStatus(span, code, text) == [span EXCEPT !.status = code, !.description = text]
AddEvent(span, name, attrs) ==
  [span EXCEPT !.events = Append(@, [name |-> name, attrs |-> attrs])]

\* span.record_exception(e): an event named "exception" carrying e
RecordException(span, e) ==
  AddEvent(span, "exception",
           [type |-> e.cls, message |-> e.msg, id |-> e.id])

\* faulty variant: the span is left open
EndSpanLeftOpen(span) == span

\* leaving `with tracer.start_as_current_span(...)`: the span ends
EndSpan(span) == [span EXCEPT !.ended = TRUE]

\* _InMemoryExporter.export, installed by _init_tracer when OTEL_INMEMORY_EXPORTER is truthy
Export(exported, span) ==
  IF env.OTEL_INMEMORY_EXPORTER THEN Append(exported, span) ELSE exported

Top(stk) == stk[Len(stk)]
Pop(stk) == SubSeq(stk, 1, Len(stk) - 1)

----------------------------------------------------------------------------
(* _init_tracer / get_tracer *)

NewCounter == [created |-> TRUE, sums |-> <<>>]
NoCounter == [created |-> FALSE, sums |-> <<>>]

\* the counter after get_tracer(): created by the first call, kept by later ones
InitTracerCounter(initialized, counter) ==
  IF initialized THEN counter ELSE NewCounter

\* APPINSIGHTS_CONNECTION_STRING: unset, empty, a string the Azure Monitor exporters
\* accept, a string they reject
ConnectionStrings == { None, Some(""), Some("valid"), Some("invalid") }

InvalidConnectionText ==
  << "I","n","v","a","l","i","d"," ","c","o","n","n","e","c","t","i","o","n"," ","s","t",
     "r","i","n","g" >>

\* `if connection_string:`
HasConnectionString ==
  env.APPINSIGHTS_CONNECTION_STRING.some /\ env.APPINSIGHTS_CONNECTION_STRING.v # ""

\* AzureMonitor*Exporter.from_connection_string(connection_string): the exporter, or
\* the ValueError of a string it rejects
ExporterFromConnectionString ==
  IF env.APPINSIGHTS_CONNECTION_STRING.v = "invalid"
  THEN [kind |-> "raise",
        exc |-> [cls |-> "ValueError", msg |-> InvalidConnectionText, id |-> 4]]
  ELSE [kind |-> "return", value |-> "exporter"]

\* `except (ValueError, Exception) as e: print(...)`: the warning is printed and
\* _init_tracer goes on without the exporter
ExporterExcept(x) == [kind |-> "return", value |-> "none"]

\* the outcome of either exporter block of _init_tracer
ExporterBlock ==
  IF ~HasConnectionString THEN [kind |-> "return", value |-> "none"]
  ELSE IF ExporterFromConnectionString.kind = "raise"
  THEN ExporterExcept(ExporterFromConnectionString)
  ELSE ExporterFromConnectionString

\* the span processors added to the new TracerProvider
SpanProcessors ==
  (IF ExporterBlock.kind = "return" /\ ExporterBlock.value = "exporter"
   THEN {"azure"} ELSE {})
  \cup (IF env.OTEL_INMEMORY_EXPORTER THEN {"memory"} ELSE {})

\* the metric readers given to the new MeterProvider
MetricReaders ==
  IF ExporterBlock.kind = "return" /\ ExporterBlock.value = "exporter"
  THEN {"azure"} ELSE {}

\* the process-wide telemetry objects; 0 is "not set", k is the object created by the
\* k-th execution of the body of _init_tracer
NoTelemetry ==
  [tracer_provider |-> 0, processors |-> {}, meter_provider |-> 0, readers |-> {},
   _meter |-> 0, _operation_duration |-> 0]

\* provider = TracerProvider(...), its processors, trace.set_tracer_provider(provider);
\* replaces tells whether the library lets a provider that is already set be replaced
TraceProviderStep(tel, k, replaces) ==
  IF tel.tracer_provider = 0 \/ replaces
  THEN [tel EXCEPT !.tracer_provider = k, !.processors = SpanProcessors]
  ELSE tel

\* meter_provider = MeterProvider(...), metrics.set_meter_provider(meter_provider)
MeterProviderStep(tel, k, replaces) ==
  IF tel.meter_provider = 0 \/ replaces
  THEN [tel EXCEPT !.meter_provider = k, !.readers = MetricReaders]
  ELSE tel

\* _meter = metrics.get_meter(__name__); _operation_duration = _meter.create_histogram(...)
InstrumentsStep(tel, k) ==
  [tel EXCEPT !._meter = tel.meter_provider, !._operation_duration = k]

\* _token_counter = _meter.create_counter(...); fresh tells whether the meter hands out
\* a new instrument when one of that name exists
CounterStep(counter, fresh) ==
  IF ~counter.created \/ fresh THEN NewCounter ELSE counter

\* the telemetry objects after get_tracer() of a single-threaded process: installed by
\* the first call, kept by later ones
InitTracerTelemetry(initialized, tel) ==
  IF initialized THEN tel
  ELSE InstrumentsStep(MeterProviderStep(TraceProviderStep(tel, 1, TRUE), 1, TRUE), 1)

----------------------------------------------------------------------------
(* traced_span *)

\* exception classes: the ones `except Exception` catches, and the ones it does not
ExceptionClasses == {"ValueError", "RuntimeError"}
BaseOnlyClasses == {"KeyboardInterrupt", "SystemExit"}
IsException(cls) == cls \in ExceptionClasses

Returned(v) == [kind |-> "return", value |-> v]
Raised(e) == [kind |-> "raise", exc |-> e]
NoOutcome == [kind |-> "none"]

Dict(m) == [type |-> "dict", m |-> m]
Plain(v) == [type |-> "plain", v |-> v]

\* round((time.time() - start_time) * 1000, 2): the clock is not modelled, the
\* attribute carries a symbolic value
ElapsedMs == "elapsed_ms"

\* faulty variant: the size is the number of values
SumLenCountsValues(m, keys) == Cardinality(keys)

RECURSIVE SumLen(_, _)
\* sum(len(str(v)) for v in result.values()); the values are strings
SumLen(m, keys) ==
  IF keys = {} THEN 0
  ELSE LET k == CHOOSE x \in keys : TRUE
       IN Len(m[k]) + SumLen(m, keys \ {k})

\* faulty variant: the except clause records the error but leaves the status alone
TracedSpanBodyNoErrorStatus(span, outcome) ==
  IF outcome.kind = "return"
  THEN SetStatus(SetAttr(span, "duration_ms", ElapsedMs), "OK", <<>>)
  ELSE RecordException(span, outcome.exc)

\* the try/except of the wrapper, applied to the open span
TracedSpanBody(span, outcome) ==
  IF outcome.kind = "return" THEN
    LET r == outcome.value
        s1 == IF r.type = "dict"
              THEN SetAttr(SetAttr(span, "state.keys", Cardinality(DOMAIN r.m)),
                           "state.content_size", SumLen(r.m, DOMAIN r.m))
              ELSE span
    IN SetStatus(SetAttr(s1, "duration_ms", ElapsedMs), "OK", <<>>)
  ELSE IF IsException(outcome.exc.cls) THEN
    SetStatus(RecordException(span, outcome.exc), "ERROR", outcome.exc.msg)
  ELSE span

\* faulty variant: the except clause swallows the error and the wrapper returns None
TracedSpanResultSwallowed(outcome) ==
  IF outcome.kind = "raise" THEN Returned(Plain("None")) ELSE outcome

\* what reaches the wrapper's caller: `return result`, or the `raise` of the same e
TracedSpanResult(outcome) == outcome

----------------------------------------------------------------------------
(* Completion responses and errors of the provider client *)

ConnectionErrorText ==
  << "C","o","n","n","e","c","t","i","o","n"," ","e","r","r","o","r","." >>
IndexErrorText ==
  << "l","i","s","t"," ","i","n","d","e","x"," ","o","u","t"," ","o","f"," ","r","a","n","g",
     "e" >>
AttributeErrorText ==
  << "o","b","j","e","c","t"," ","h","a","s"," ","n","o"," ","a","t","t","r","i","b","u","t",
     "e" >>
OkText == << "o","k" >>

\* response.usage: no such attribute, None, an object without the token fields, or counts
UsageAbsent == [shape |-> "absent"]
UsageNone == [shape |-> "none"]
UsageMalformed == [shape |-> "malformed"]
Usage(p, c) == [shape |-> "ok", prompt_tokens |-> p, completion_tokens |-> c]

\* response.choices: no such attribute, [], a choice without .message, a choice whose
\* message is None, or a choice with message.content and finish_reason
ChoicesAbsent == [shape |-> "absent"]
ChoicesEmpty == [shape |-> "empty"]
ChoiceNoMessage == [shape |-> "nomessage"]
ChoiceBadMessage == [shape |-> "badmessage"]
Choice(content, finish) == [shape |-> "ok", content |-> content, finish_reason |-> finish]

Completion(u, c, m) == [usage |-> u, choices |-> c, model |-> m]

\* the responses a completed model call of the pipeline may return
Completions ==
  { Completion(Usage(MaxTokens, 1), Choice(Some(OkText), Some("stop")), Some("gpt-4o-mini")),
    Completion(UsageNone, Choice(None, None), None),
    Completion(Usage(1, MaxTokens), ChoicesEmpty, Some("gpt-4o-mini")) }

\* the errors client.chat.completions.create may raise
ClientErrors == { [cls |-> "RuntimeError", msg |-> ConnectionErrorText, id |-> 1] }

----------------------------------------------------------------------------
(* add_llm_response_attributes *)

TokenLabels(type, model, operation) ==
  [type |-> type, model |-> model, operation |-> operation]

\* faulty variant: the counter keeps the last amount instead of the sum
CounterAddOverwrites(counter, amount, labels) ==
  [counter EXCEPT !.sums = Put(@, labels, amount)]

\* Counter.add(amount, labels)
CounterAdd(counter, amount, labels) ==
  [counter EXCEPT !.sums = Put(@, labels, Get(@, labels, 0) + amount)]

\* the `if hasattr(response, "usage") and response.usage:` block; raised tells whether
\* it raised (the usage object lacks a token field)
UsageStep(span, counter, r, model, operation) ==
  IF r.usage.shape \in {"absent", "none"} THEN
    [span |-> span, counter |-> counter, raised |-> FALSE]
  ELSE IF r.usage.shape = "malformed" THEN
    [span |-> span, counter |-> counter, raised |-> TRUE]
  ELSE
    [span |-> SetAttr(SetAttr(span, "gen_ai.usage.input_tokens", r.usage.prompt_tokens),
                      "gen_ai.usage.output_tokens", r.usage.completion_tokens),
     counter |->
       IF counter.created /\ model # ""
       THEN CounterAdd(CounterAdd(counter, r.usage.prompt_tokens,
                                  TokenLabels("input", model, operation)),
                       r.usage.completion_tokens,
                       TokenLabels("output", model, operation))
       ELSE counter,
     raised |-> FALSE]

\* the `if hasattr(response, "choices") and response.choices:` block
ChoicesStep(span, r) ==
  IF r.choices.shape \in {"absent", "empty", "nomessage"} THEN
    [span |-> span, raised |-> FALSE]
  ELSE IF r.choices.shape = "badmessage" THEN
    [span |-> span, raised |-> TRUE]
  ELSE
    [span |-> SetAttr(span, "gen_ai.response.finish_reasons",
                      << IF r.choices.finish_reason.some
                         THEN r.choices.finish_reason.v ELSE "unknown" >>),
     raised |-> FALSE]

\* the `if hasattr(response, "model"):` block
ModelStep(span, r) ==
  IF r.model.some THEN SetAttr(span, "gen_ai.response.model", r.model.v) ELSE span

\* the whole function: the three blocks inside one try, whose except swallows
AddLlmResponseAttributes(span, counter, r, model, operation) ==
  LET u == UsageStep(span, counter, r, model, operation)
      c == ChoicesStep(u.span, r)
  IN IF u.raised THEN [span |-> u.span, counter |-> u.counter]
     ELSE IF c.raised THEN [span |-> c.span, counter |-> u.counter]
     ELSE [span |-> ModelStep(c.span, r), counter |-> u.counter]

\* the error a block of the recorder raises on a response that lacks a field
ShapeError == [cls |-> "RuntimeError", msg |-> AttributeErrorText, id |-> 5]

\* faulty variant: the except clause lets the error out
RecorderExceptPropagates(e) == Raised(e)

\* `except Exception: pass`: the call ends normally and returns None
RecorderExcept(e) == Returned("None")

\* what add_llm_response_attributes gives its caller
AddLlmResponseAttributesOutcome(span, counter, r, model, operation) ==
  LET u == UsageStep(span, counter, r, model, operation)
      c == ChoicesStep(u.span, r)
  IN IF u.raised \/ c.raised THEN RecorderExcept(ShapeError) ELSE Returned("None")

----------------------------------------------------------------------------
(* _call_llm *)

HasApiKey ==
  env.AZURE_OPENAI_API_KEY \/ env.OPENAI_API_KEY \/ env.GITHUB_MODELS_API_KEY

UseAzure == env.AZURE_OPENAI_ENDPOINT /\ env.AZURE_OPENAI_DEPLOYMENT

\* faulty variant: the stub echoes the whole prompt
StubResponseWhole(prompt) == StubHead \o prompt \o StubTail

\* f"[stub-response] {prompt[:80]}..."
StubResponse(prompt) == StubHead \o Prefix(prompt, StubPrefixLen) \o StubTail

\* f"[llm-error-fallback] {e}"
Fallback(e) == FallbackHead \o e.msg

\* the span opened on either provider path, with its request attributes
LlmSpan(prompt, operation) ==
  LET s1 == SetAttr(SetAttr(SetAttr(
              SetAttr(NewSpan(operation), "llm.system",
                      IF UseAzure THEN "azure_openai" ELSE "openai"),
              "llm.model", IF UseAzure THEN "AZURE_OPENAI_DEPLOYMENT"
                           ELSE "openai/gpt-4o-mini"),
              "llm.request.max_tokens", RequestMaxTokens),
              "llm.request.prompt_length", Len(prompt))
  IN IF UseAzure
     THEN SetAttr(SetAttr(s1, "llm.azure.endpoint", "AZURE_OPENAI_ENDPOINT"),
                  "llm.azure.api_version", "2024-08-01-preview")
     ELSE s1

\* completion.choices[0].message.content or "": the text, or the error it raises
CompletionText(r) ==
  IF r.choices.shape = "ok"
  THEN Returned(IF r.choices.content.some THEN r.choices.content.v ELSE <<>>)
  ELSE IF r.choices.shape = "empty"
  THEN Raised([cls |-> "RuntimeError", msg |-> IndexErrorText, id |-> 2])
  ELSE Raised([cls |-> "RuntimeError", msg |-> AttributeErrorText, id |-> 3])

\* faulty variant: the provider's error leaves _call_llm
CallLlmExceptPropagates(e) == Raised(e)

\* `except Exception as e: return f"[llm-error-fallback] {e}"`
CallLlmExcept(e) == Returned(Fallback(e))

\* what _call_llm does once the client returned r, on the open llm span: the
\* recorder (called without model or operation), then the text and
\* llm.response.length, or the except clause
CallLlmCompleted(span, counter, r) ==
  LET a == AddLlmResponseAttributes(span, counter, r, "", "")
      o == AddLlmResponseAttributesOutcome(span, counter, r, "", "")
      t == IF o.kind = "raise" THEN o ELSE CompletionText(r)
  IN IF t.kind = "return"
     THEN [span |-> SetAttr(a.span, "llm.response.length", Len(t.value)),
           counter |-> a.counter, result |-> t, failed |-> FALSE]
     ELSE [span |-> a.span, counter |-> a.counter, result |-> CallLlmExcept(t.exc),
           failed |-> TRUE]

----------------------------------------------------------------------------
(* The four agents and the graph *)

Agents == {"planner_agent", "worker_agent", "reflection_agent", "reviewer_agent"}

\* @traced_span("<name>") on each agent
SpanName(func) ==
  CASE func = "planner_agent" -> "planner.agent"
    [] func = "worker_agent" -> "worker.agent"
    [] func = "reflection_agent" -> "reflection.agent"
    [] func = "reviewer_agent" -> "reviewer.agent"

\* the key each agent writes
StageKey(func) ==
  CASE func = "planner_agent" -> "plan"
    [] func = "worker_agent" -> "work"
    [] func = "reflection_agent" -> "reflection"
    [] func = "reviewer_agent" -> "review"

\* the operation name each agent passes to _call_llm
StageOperation(func) ==
  CASE func = "planner_agent" -> "llm.completion.planner"
    [] func = "worker_agent" -> "llm.completion.worker"
    [] func = "reflection_agent" -> "llm.completion.reflection"
    [] func = "reviewer_agent" -> "llm.completion.reviewer"

PlannerPrompt(st) == PlannerTemplate \o Get(st, "task", <<>>)
WorkerPrompt(st) == WorkerTemplate \o Get(st, "plan", <<>>)
ReflectionPrompt(st) ==
  LET work == Get(st, "work", <<>>)
  IN ReflectionTemplateHead \o Dec(Len(work)) \o ReflectionTemplateMid \o work
ReviewerPrompt(st) ==
  ReviewerTemplateHead \o Get(st, "work", <<>>) \o ReviewerTemplateMid
    \o Get(st, "reflection", <<>>)

StagePrompt(func, st) ==
  CASE func = "planner_agent" -> PlannerPrompt(st)
    [] func = "worker_agent" -> WorkerPrompt(st)
    [] func = "reflection_agent" -> ReflectionPrompt(st)
    [] func = "reviewer_agent" -> ReviewerPrompt(st)

\* faulty variant: the agent returns a fresh mapping holding only its own key
StageWriteFresh(func, st, text) == [k \in {StageKey(func)} |-> text]

\* state[<key>] = <text>
StageWrite(func, st, text) == Put(st, StageKey(func), text)

\* the agent's body after _call_llm: the text is written and the state returned; an
\* error out of _call_llm would leave the body before the write
StageAfterLlm(func, st, res) ==
  IF res.kind = "return"
  THEN [state |-> StageWrite(func, st, res.value),
        outcome |-> Returned(Dict(StageWrite(func, st, res.value)))]
  ELSE [state |-> st, outcome |-> res]

\* build_graph: nodes, entry point, edges, finish point
Nodes == {"planner", "worker", "reflector", "reviewer"}
NodeFunc(n) ==
  CASE n = "planner" -> "planner_agent"
    [] n = "worker" -> "worker_agent"
    [] n = "reflector" -> "reflection_agent"
    [] n = "reviewer" -> "reviewer_agent"
EntryPoint == "planner"
FinishPoint == "reviewer"

\* faulty variant: the worker's edge skips the reflector
EdgeSkipsReflector(n) ==
  CASE n = "planner" -> "worker"
    [] n = "worker" -> "reviewer"
    [] OTHER -> "none"

Edge(n) ==
  CASE n = "planner" -> "worker"
    [] n = "worker" -> "reflector"
    [] n = "reflector" -> "reviewer"
    [] OTHER -> "none"

----------------------------------------------------------------------------
(* Inputs *)

\* a task text of n characters that ends with c
TaskOf(n, c) == IF n = 0 THEN <<>> ELSE Rep("a", n - 1) \o <<c>>

TaskLens == {0, MaxTaskLen - 1, MaxTaskLen}
Tasks == { TaskOf(n, c) : n \in TaskLens, c \in {"a", "b"} }

\* the environments of a pipeline process: which provider variables are set, and
\* whether the in-memory exporter is on; content logging is left at its defaults
PipelineEnvs ==
  [ AZURE_OPENAI_API_KEY : BOOLEAN, OPENAI_API_KEY : BOOLEAN,
    GITHUB_MODELS_API_KEY : BOOLEAN, AZURE_OPENAI_ENDPOINT : BOOLEAN,
    AZURE_OPENAI_DEPLOYMENT : BOOLEAN, OTEL_INMEMORY_EXPORTER : BOOLEAN,
    ENABLE_PROMPT_LOGGING : {None}, PROMPT_LOG_MAX_LENGTH : {None},
    APPINSIGHTS_CONNECTION_STRING : {None} ]

NoRequest == [task |-> None]
NoCall == [name |-> "", func |-> "", invoked |-> 0, outcome |-> NoOutcome]
NoResponse == [sent |-> FALSE]

SetSpan(ss, i, s) == [ss EXCEPT ![i] = s]

\* ghost: one wrapper invocation, as it ended: its span, what func did, what the
\* caller got, and how often func was invoked
ExitEvent(i, c, res) ==
  [ev |-> "exit", span |-> i, name |-> c.name, func |-> c.func, outcome |-> c.outcome,
   seen |-> res, invoked |-> c.invoked]

----------------------------------------------------------------------------
(* The service: app.py serving one request through the graph *)

\* after `import src.agent.app`: get_tracer() has run, the graph is built
Init ==
  /\ env \in PipelineEnvs
  /\ req = NoRequest
  /\ pc = "idle"
  /\ state = <<>>
  /\ node = "none"
  /\ call = NoCall
  /\ caller = NoOutcome
  /\ spans = <<>>
  /\ stack = <<>>
  /\ _in_memory_spans = <<>>
  /\ _tracer_initialized = TRUE
  /\ _token_counter = NewCounter
  /\ telemetry = InitTracerTelemetry(FALSE, NoTelemetry)
  /\ threads = <<>>
  /\ history = <<>>
  /\ response = NoResponse

\* run_graph up to _graph.invoke(state): the workflow span opens, the state holds task
RunGraph(T) ==
  /\ pc = "idle"
  /\ req' = [task |-> Some(T)]
  /\ _token_counter' = InitTracerCounter(_tracer_initialized, _token_counter)
  /\ telemetry' = InitTracerTelemetry(_tracer_initialized, telemetry)
  /\ _tracer_initialized' = TRUE
  /\ spans' = Append(spans,
                     SetAttr(SetAttr(NewSpan("workflow.execution"), "workflow.task", T),
                             "workflow.task_length", Len(T)))
  /\ stack' = Append(stack, Len(spans) + 1)
  /\ state' = [k \in {"task"} |-> T]
  /\ node' = EntryPoint
  /\ pc' = "node"
  /\ UNCHANGED << env, threads, call, caller, _in_memory_spans, history, response >>

\* the wrapper of the node's agent up to `result = func(...)`: its span opens
StageEnter ==
  /\ pc = "node"
  /\ node \in Nodes
  /\ LET func == NodeFunc(node)
     IN /\ call' = [name |-> SpanName(func), func |-> func, invoked |-> 0,
                    outcome |-> NoOutcome]
        /\ spans' = Append(spans, NewSpan(SpanName(func)))
  /\ _token_counter' = InitTracerCounter(_tracer_initialized, _token_counter)
  /\ telemetry' = InitTracerTelemetry(_tracer_initialized, telemetry)
  /\ _tracer_initialized' = TRUE
  /\ stack' = Append(stack, Len(spans) + 1)
  /\ pc' = "body"
  /\ UNCHANGED << env, threads, req, state, node, caller, _in_memory_spans, history, response >>

\* the agent's body when _call_llm finds no api key: the stub, written under its key
StageBodyStub ==
  /\ pc = "body"
  /\ call.func \in Agents
  /\ ~HasApiKey
  /\ LET text == StubResponse(StagePrompt(call.func, state))
         after == StageAfterLlm(call.func, state, Returned(text))
     IN /\ state' = after.state
        /\ call' = [call EXCEPT !.invoked = @ + 1, !.outcome = after.outcome]
  /\ history' = Append(history, [ev |-> "llm", func |-> call.func, kind |-> "stub"])
  /\ pc' = "exit"
  /\ UNCHANGED << env, threads, telemetry, req, node, caller, spans, stack, _in_memory_spans,
                  _tracer_initialized, _token_counter, response >>

\* the agent's body up to client.chat.completions.create: the llm span is open
LlmRequest ==
  /\ pc = "body"
  /\ call.func \in Agents
  /\ HasApiKey
  /\ call' = [call EXCEPT !.invoked = @ + 1]
  /\ _token_counter' = InitTracerCounter(_tracer_initialized, _token_counter)
  /\ telemetry' = InitTracerTelemetry(_tracer_initialized, telemetry)
  /\ _tracer_initialized' = TRUE
  /\ spans' = Append(spans, LlmSpan(StagePrompt(call.func, state),
                                    StageOperation(call.func)))
  /\ stack' = Append(stack, Len(spans) + 1)
  /\ pc' = "await"
  /\ UNCHANGED << env, threads, req, state, node, caller, _in_memory_spans, history, response >>

\* the client returned r: the recorder runs, the llm span ends, and the text (or the
\* fallback of a response without choices) is written under the agent's key
LlmResponse(r) ==
  /\ pc = "await"
  /\ LET i == Top(stack)
         done == CallLlmCompleted(spans[i], _token_counter, r)
         s == EndSpan(done.span)
         after == StageAfterLlm(call.func, state, done.result)
     IN /\ spans' = SetSpan(spans, i, s)
        /\ _in_memory_spans' = Export(_in_memory_spans, s)
        /\ _token_counter' = done.counter
        /\ state' = after.state
        /\ call' = [call EXCEPT !.outcome = after.outcome]
        /\ history' = history
             \o << [ev |-> "tokens", response |-> r, model |-> "", operation |-> "",
                    live |-> _token_counter.created,
                    outcome |-> AddLlmResponseAttributesOutcome(spans[i], _token_counter,
                                                                r, "", "")] >>
             \o << [ev |-> "llm", func |-> call.func,
                    kind |-> IF done.failed THEN "badshape" ELSE "completed"] >>
  /\ stack' = Pop(stack)
  /\ pc' = "exit"
  /\ UNCHANGED << env, threads, telemetry, req, node, caller, _tracer_initialized, response >>

\* the client raised e: _call_llm returns the fallback text, the llm span ends
LlmError(e) ==
  /\ pc = "await"
  /\ LET i == Top(stack)
         s == EndSpan(spans[i])
         after == StageAfterLlm(call.func, state, CallLlmExcept(e))
     IN /\ spans' = SetSpan(spans, i, s)
        /\ _in_memory_spans' = Export(_in_memory_spans, s)
        /\ state' = after.state
        /\ call' = [call EXCEPT !.outcome = after.outcome]
  /\ history' = Append(history, [ev |-> "llm", func |-> call.func, kind |-> "error"])
  /\ stack' = Pop(stack)
  /\ pc' = "exit"
  /\ UNCHANGED << env, threads, telemetry, req, node, caller, _tracer_initialized, _token_counter, response >>

\* the rest of the wrapper: attributes and status, the span ends, the result (or the
\* error) reaches the graph, which moves to the next node or to its finish point
StageExit ==
  /\ pc = "exit"
  /\ node \in Nodes
  /\ LET i == Top(stack)
         s == EndSpan(TracedSpanBody(spans[i], call.outcome))
         res == TracedSpanResult(call.outcome)
     IN /\ spans' = SetSpan(spans, i, s)
        /\ _in_memory_spans' = Export(_in_memory_spans, s)
        /\ caller' = res
        /\ IF res.kind = "return"
           THEN /\ state' = IF res.value.type = "dict" THEN res.value.m ELSE state
                /\ node' = IF node = FinishPoint THEN "none" ELSE Edge(node)
                /\ pc' = IF node = FinishPoint THEN "finish" ELSE "node"
           ELSE /\ state' = state
                /\ node' = "none"
                /\ pc' = "failed"
        /\ history' = Append(history, ExitEvent(i, call, res))
  /\ stack' = Pop(stack)
  /\ call' = NoCall
  /\ UNCHANGED << env, threads, telemetry, req, _tracer_initialized, _token_counter, response >>

\* result.get(k): the value, or None
Lookup(m, k) == IF k \in DOMAIN m THEN Some(m[k]) ELSE None

\* workflow.<k>_length is set when result.get(k) is truthy
LengthAttr(span, m, k, attr) ==
  IF k \in DOMAIN m /\ Len(m[k]) > 0 THEN SetAttr(span, attr, Len(m[k])) ELSE span

\* run_graph after _graph.invoke: result attributes, the workflow span ends, the
\* response goes out
FinishRun ==
  /\ pc = "finish"
  /\ LET i == Top(stack)
         s == EndSpan(
                LengthAttr(
                  LengthAttr(
                    LengthAttr(SetAttr(spans[i], "workflow.completed", TRUE),
                               state, "plan", "workflow.plan_length"),
                    state, "work", "workflow.work_length"),
                  state, "review", "workflow.review_length"))
     IN /\ spans' = SetSpan(spans, i, s)
        /\ _in_memory_spans' = Export(_in_memory_spans, s)
  /\ response' = [sent |-> TRUE, task |-> req.task.v, plan |-> Lookup(state, "plan"),
                  work |-> Lookup(state, "work"), review |-> Lookup(state, "review")]
  /\ stack' = Pop(stack)
  /\ pc' = "done"
  /\ UNCHANGED << env, threads, telemetry, req, state, node, call, caller, _tracer_initialized,
                  _token_counter, history >>

Next ==
  \/ \E T \in Tasks : RunGraph(T)
  \/ StageEnter
  \/ StageBodyStub
  \/ LlmRequest
  \/ \E r \in Completions : LlmResponse(r)
  \/ \E e \in ClientErrors : LlmError(e)
  \/ StageExit
  \/ FinishRun

Spec == Init /\ [][Next]_vars

----------------------------------------------------------------------------
(* traced_span around any call: a decorated function invoked directly, as the
   telemetry tests do, with the tracer still to be initialised *)

ForcedFailureText ==
  << "f","o","r","c","e","d"," ","f","a","i","l","u","r","e" >>

\* span names and static attributes given to traced_span
WrapNames == {"failing.agent", "custom.step"}
WrapAttributes == { <<>>, [component |-> "demo"] }

\* what a wrapped call may return: mappings of text, or a value that is no mapping
WrapMappings ==
  { <<>>, [task |-> <<"a">>], [task |-> <<"a">>, plan |-> <<"b", "b">>] }
WrapReturns == { Dict(m) : m \in WrapMappings } \cup { Plain("None") }

\* what it may raise: an Exception, or a BaseException that is no Exception
WrapMessages == { <<>>, ForcedFailureText }
WrapClasses == {"ValueError", "KeyboardInterrupt"}

WrapEnvs ==
  { e \in PipelineEnvs :
      /\ ~e.AZURE_OPENAI_API_KEY /\ ~e.GITHUB_MODELS_API_KEY
      /\ ~e.AZURE_OPENAI_ENDPOINT /\ ~e.AZURE_OPENAI_DEPLOYMENT }

Invocations == { i \in DOMAIN history : history[i].ev = "exit" }

InitWrap ==
  /\ env \in WrapEnvs
  /\ req = NoRequest
  /\ pc = "idle"
  /\ state = <<>>
  /\ node = "none"
  /\ call = NoCall
  /\ caller = NoOutcome
  /\ spans = <<>>
  /\ stack = <<>>
  /\ _in_memory_spans = <<>>
  /\ _tracer_initialized = FALSE
  /\ _token_counter = NoCounter
  /\ telemetry = NoTelemetry
  /\ threads = <<>>
  /\ history = <<>>
  /\ response = NoResponse

\* for k, v in attributes.items(): span.set_attribute(k, v)
ApplyAttributes(span, attributes) == [span EXCEPT !.attrs = attributes]

\* wrapper(*args) of traced_span(n, attributes)(f), up to `result = func(...)`
CallWrapped(n, attributes) ==
  /\ pc = "idle"
  /\ node = "none"
  /\ Cardinality(Invocations) < MaxInvocations
  /\ call' = [name |-> n, func |-> "f", invoked |-> 0, outcome |-> NoOutcome]
  /\ _token_counter' = InitTracerCounter(_tracer_initialized, _token_counter)
  /\ telemetry' = InitTracerTelemetry(_tracer_initialized, telemetry)
  /\ _tracer_initialized' = TRUE
  /\ spans' = Append(spans, ApplyAttributes(NewSpan(n), attributes))
  /\ stack' = Append(stack, Len(spans) + 1)
  /\ state' = <<>>
  /\ pc' = "body"
  /\ UNCHANGED << env, threads, req, node, caller, _in_memory_spans, history, response >>

\* an agent called directly with {"task": T}, up to `result = func(...)`
CallAgent(func, T) ==
  /\ pc = "idle"
  /\ node = "none"
  /\ Cardinality(Invocations) < MaxInvocations
  /\ call' = [name |-> SpanName(func), func |-> func, invoked |-> 0,
              outcome |-> NoOutcome]
  /\ _token_counter' = InitTracerCounter(_tracer_initialized, _token_counter)
  /\ telemetry' = InitTracerTelemetry(_tracer_initialized, telemetry)
  /\ _tracer_initialized' = TRUE
  /\ spans' = Append(spans, NewSpan(SpanName(func)))
  /\ stack' = Append(stack, Len(spans) + 1)
  /\ state' = [k \in {"task"} |-> T]
  /\ pc' = "body"
  /\ UNCHANGED << env, threads, req, node, caller, _in_memory_spans, history, response >>

\* f returns v
FuncReturns(v) ==
  /\ pc = "body"
  /\ call.func = "f"
  /\ call' = [call EXCEPT !.invoked = @ + 1, !.outcome = Returned(v)]
  /\ pc' = "exit"
  /\ UNCHANGED << env, threads, telemetry, req, state, node, caller, spans, stack, _in_memory_spans,
                  _tracer_initialized, _token_counter, history, response >>

\* f raises a new error of class cls with message msg
FuncRaises(cls, msg) ==
  /\ pc = "body"
  /\ call.func = "f"
  /\ call' = [call EXCEPT !.invoked = @ + 1,
                          !.outcome = Raised([cls |-> cls, msg |-> msg,
                                              id |-> 10 + Len(spans)])]
  /\ pc' = "exit"
  /\ UNCHANGED << env, threads, telemetry, req, state, node, caller, spans, stack, _in_memory_spans,
                  _tracer_initialized, _token_counter, history, response >>

\* the rest of the wrapper: attributes and status or the recorded error, the span
\* ends, and the result or the error reaches the caller
WrapExit ==
  /\ pc = "exit"
  /\ node = "none"
  /\ LET i == Top(stack)
         s == EndSpan(TracedSpanBody(spans[i], call.outcome))
         res == TracedSpanResult(call.outcome)
     IN /\ spans' = SetSpan(spans, i, s)
        /\ _in_memory_spans' = Export(_in_memory_spans, s)
        /\ caller' = res
        /\ history' = Append(history, ExitEvent(i, call, res))
  /\ stack' = Pop(stack)
  /\ call' = NoCall
  /\ pc' = "idle"
  /\ UNCHANGED << env, threads, telemetry, req, state, node, _tracer_initialized, _token_counter, response >>

NextWrap ==
  \/ \E n \in WrapNames, a \in WrapAttributes : CallWrapped(n, a)
  \/ \E func \in {"planner_agent"}, T \in {TaskOf(1, "a")} : CallAgent(func, T)
  \/ \E v \in WrapReturns : FuncReturns(v)
  \/ \E cls \in WrapClasses, msg \in WrapMessages : FuncRaises(cls, msg)
  \/ StageBodyStub
  \/ LlmRequest
  \/ \E r \in Completions : LlmResponse(r)
  \/ \E e \in ClientErrors : LlmError(e)
  \/ WrapExit

SpecWrap == InitWrap /\ [][NextWrap]_vars

----------------------------------------------------------------------------
(* Claims about traced_span (SpecWrap) *)

LlmOperations == { StageOperation(f) : f \in Agents }

\* the spans opened by traced_span wrappers
WrapperSpans ==
  { i \in DOMAIN spans :
      spans[i].name \notin LlmOperations \cup {"workflow.execution"} }

EndedSpans == { i \in DOMAIN spans : spans[i].ended }

\* the completed invocations, in the order they ended
InvocationSeq == SelectSeq(history, LAMBDA h : h.ev = "exit")

\* the names of the exported spans that are no llm spans, in export order
ExportedWrapperNames ==
  LET w == SelectSeq(_in_memory_spans,
                     LAMBDA s : s.name \notin LlmOperations \cup {"workflow.execution"})
  IN [i \in DOMAIN w |-> w[i].name]

(* C1: every invocation of traced_span(n)(f) starts exactly one span named n, and
   that span has ended, and has been handed to the exporter when one is installed,
   by the time control is back at the caller, whether f returned or raised: never
   zero spans, two spans, or a span left open. *)
C1_OneEndedSpanPerInvocation ==
  /\ \A k \in Invocations :
       /\ history[k].span \in WrapperSpans
       /\ spans[history[k].span].name = history[k].name
       /\ spans[history[k].span].ended
  /\ \A k1, k2 \in Invocations :
       history[k1].span = history[k2].span => k1 = k2
  /\ Cardinality(WrapperSpans)
       = Cardinality(Invocations) + (IF pc = "idle" THEN 0 ELSE 1)
  /\ pc = "idle" => EndedSpans = DOMAIN spans
  /\ env.OTEL_INMEMORY_EXPORTER =>
       /\ Len(_in_memory_spans) = Cardinality(EndedSpans)
       /\ ExportedWrapperNames = [i \in DOMAIN InvocationSeq |-> InvocationSeq[i].name]

\* control is back at the caller after one call that returned and one that raised
C1_Witness ==
  /\ pc = "idle"
  /\ env.OTEL_INMEMORY_EXPORTER
  /\ \E k \in Invocations : history[k].outcome.kind = "return"
  /\ \E k \in Invocations : history[k].outcome.kind = "raise"

(* C2 as stated: the finished span's status is ERROR if and only if the stage
   raised. *)
C2_ErrorIffRaised ==
  \A k \in Invocations :
    spans[history[k].span].status = "ERROR" <=> history[k].outcome.kind = "raise"

\* the invocation whose body got the fallback text of a failed completion call
FellBack(k) ==
  \E j \in 1 .. k :
    /\ history[j].ev = "llm"
    /\ history[j].kind \in {"error", "badshape"}
    /\ \A m \in (j + 1) .. (k - 1) : history[m].ev # "exit"

(* C2 amended: the finished span's status is ERROR if and only if the stage raised
   an Exception; it is OK if and only if the stage body returned (also when its
   completion call failed and the fallback text took its place); a raised
   BaseException that is no Exception leaves the status unset. *)
C2_ErrorIffExceptionRaised ==
  \A k \in Invocations :
    LET h == history[k]
        s == spans[h.span]
    IN /\ s.status = "ERROR" <=>
            (h.outcome.kind = "raise" /\ h.outcome.exc.cls \in ExceptionClasses)
       /\ s.status = "OK" <=> h.outcome.kind = "return"
       /\ s.status = "UNSET" <=>
            (h.outcome.kind = "raise" /\ h.outcome.exc.cls \in BaseOnlyClasses)
       /\ FellBack(k) => s.status = "OK"

\* a stage that raised ValueError and one whose completion call failed
C2_Witness ==
  /\ \E k \in Invocations :
       /\ history[k].outcome.kind = "raise"
       /\ history[k].outcome.exc.cls = "ValueError"
       /\ spans[history[k].span].status = "ERROR"
  /\ \E k \in Invocations : FellBack(k) /\ spans[history[k].span].status = "OK"

(* C3: when f raises an error e (an Exception), the wrapper records e as an
   exception event on the span, sets the status to ERROR with e's message, and the
   caller gets the very same e; f is invoked exactly once per wrapper invocation,
   and no raised error is swallowed or turned into a return value. *)
C3_ErrorRecordedAndReraised ==
  \A k \in Invocations :
    LET h == history[k]
        s == spans[h.span]
    IN /\ h.invoked = 1
       /\ h.outcome.kind = "raise" => h.seen = h.outcome
       /\ h.outcome.kind = "return" => h.seen.kind = "return"
       /\ (h.outcome.kind = "raise" /\ IsException(h.outcome.exc.cls)) =>
            /\ \E j \in DOMAIN s.events :
                 /\ s.events[j].name = "exception"
                 /\ s.events[j].attrs.id = h.outcome.exc.id
                 /\ s.events[j].attrs.type = h.outcome.exc.cls
                 /\ s.events[j].attrs.message = h.outcome.exc.msg
            /\ s.status = "ERROR"
            /\ s.description = h.outcome.exc.msg

\* f raised ValueError("forced failure") and the caller has it
C3_Witness ==
  \E k \in Invocations :
    /\ history[k].outcome.kind = "raise"
    /\ history[k].outcome.exc.cls = "ValueError"
    /\ history[k].outcome.exc.msg = ForcedFailureText
    /\ caller = history[k].outcome
    /\ pc = "idle"

----------------------------------------------------------------------------
(* Claims about the pipeline (Spec) *)

StageOrder == << "planner.agent", "worker.agent", "reflection.agent", "reviewer.agent" >>
AgentOrder == << "planner_agent", "worker_agent", "reflection_agent", "reviewer_agent" >>

IsPrefix(s, t) == Len(s) <= Len(t) /\ s = SubSeq(t, 1, Len(s))

\* the names of the wrapper spans, in start order
StartedWrapperNames ==
  LET w == SelectSeq(spans,
                     LAMBDA s : s.name \notin LlmOperations \cup {"workflow.execution"})
  IN [i \in DOMAIN w |-> w[i].name]

\* the agents that ran to their end, in order
ExecutedAgents == [i \in DOMAIN InvocationSeq |-> InvocationSeq[i].func]

(* C4: in every pipeline run started from a state holding only task, the stages run
   once each in the order planner, worker, reflection, reviewer, and the spans
   planner.agent, worker.agent, reflection.agent, reviewer.agent are recorded once
   each in that order; no stage starts before the previous one has finished, and
   nothing leads back from reflection to an earlier stage. *)
C4_StagesOnceInOrder ==
  /\ IsPrefix(StartedWrapperNames, StageOrder)
  /\ IsPrefix(ExecutedAgents, AgentOrder)
  /\ \A k \in Invocations : history[k].invoked = 1
  /\ env.OTEL_INMEMORY_EXPORTER => IsPrefix(ExportedWrapperNames, StageOrder)
  /\ \A i, j \in WrapperSpans : i < j => spans[i].ended
  /\ pc # "failed"
  /\ pc \in {"finish", "done"} =>
       /\ StartedWrapperNames = StageOrder
       /\ ExecutedAgents = AgentOrder
       /\ env.OTEL_INMEMORY_EXPORTER => ExportedWrapperNames = StageOrder

\* a run that ended, with its four spans exported
C4_Witness ==
  /\ pc = "done"
  /\ env.OTEL_INMEMORY_EXPORTER
  /\ DOMAIN req.task.v = 1 .. MaxTaskLen
  /\ ExportedWrapperNames = StageOrder

\* the completion calls that failed: the client raised, or the response had no text
FailedLlmCalls ==
  { j \in DOMAIN history :
      history[j].ev = "llm" /\ history[j].kind \in {"error", "badshape"} }

(* C5: whenever a completion call fails, in any stage and on either provider path,
   _call_llm returns a fallback text instead of raising: no stage raises, the failing
   stage still writes its key, every later stage still runs, and the run ends with
   plan, work, reflection and review all present. *)
C5_ProviderFailureNeverAborts ==
  /\ pc # "failed"
  /\ \A k \in Invocations : history[k].outcome.kind = "return"
  /\ \A j \in FailedLlmCalls :
       /\ StageKey(history[j].func) \in DOMAIN state
       /\ IsPrefix(FallbackHead, state[StageKey(history[j].func)])
  /\ pc \in {"finish", "done"} =>
       /\ {"plan", "work", "reflection", "review"} \subseteq DOMAIN state
       /\ ExecutedAgents = AgentOrder
  /\ pc = "done" =>
       /\ response.plan = Some(state["plan"])
       /\ response.work = Some(state["work"])
       /\ response.review = Some(state["review"])

\* a run on the Azure path that ended although the planner's completion call raised
C5_Witness ==
  /\ pc = "done"
  /\ UseAzure
  /\ \E j \in FailedLlmCalls :
       history[j].func = "planner_agent" /\ history[j].kind = "error"
  /\ \E j \in FailedLlmCalls : history[j].func = "reviewer_agent"

\* the first n characters of s
FirstChars(s, n) == [i \in 1 .. (IF Len(s) < n THEN Len(s) ELSE n) |-> s[i]]

(* C6: with none of AZURE_OPENAI_API_KEY, OPENAI_API_KEY, GITHUB_MODELS_API_KEY set,
   for every task T no completion request is made and every completion is the stub
   echoing the first 80 characters of the composed prompt; the plan is
   "[stub-response] " + (planner template + T)[:80] + "...", a function of T alone. *)
C6_StubEchoesPromptPrefix ==
  ~HasApiKey =>
    /\ pc # "await"
    /\ \A i \in DOMAIN spans : spans[i].name \notin LlmOperations
    /\ \A j \in DOMAIN history : history[j].ev = "llm" => history[j].kind = "stub"
    /\ "plan" \in DOMAIN state =>
         state["plan"]
           = StubHead \o FirstChars(PlannerTemplate \o req.task.v, 80) \o StubTail
    /\ "work" \in DOMAIN state =>
         state["work"]
           = StubHead \o FirstChars(WorkerTemplate \o state["plan"], 80) \o StubTail

\* a run without credentials whose planner prompt is longer than 80 characters
C6_Witness ==
  /\ ~HasApiKey
  /\ pc = "done"
  /\ Len(PlannerTemplate \o req.task.v) > 80
  /\ Len(state["plan"]) = Len(StubHead) + 80 + Len(StubTail)

\* one step of the run, as the state mapping sees it
C7_Step ==
  /\ \A k \in DOMAIN state : k \in DOMAIN state' /\ state'[k] = state[k]
  /\ (DOMAIN state' \ DOMAIN state) \subseteq
       (IF pc = "idle" THEN {"task"}
        ELSE IF call.func \in Agents THEN {StageKey(call.func)} ELSE {})
  /\ (pc \in {"body", "await"} /\ pc' = "exit") =>
       /\ StageKey(call.func) \notin DOMAIN state
       /\ DOMAIN state' = DOMAIN state \cup {StageKey(call.func)}

(* C7: over a pipeline run the state mapping grows monotonically: each stage adds
   exactly its own key, no key is ever removed, and a key once written (or task,
   supplied in the input) never changes its value. *)
C7_StateGrowsMonotonically == [][C7_Step]_vars

\* a run that ended with all five keys
C7_Witness ==
  /\ pc = "done"
  /\ DOMAIN state = {"task", "plan", "work", "reflection", "review"}
  /\ HasApiKey

(* C8: whenever add_llm_response_attributes has processed a completed response that
   carries token counts, as _call_llm has it do after every completed model call,
   the input and output counts are on the span as attributes and in the token
   counter under labels of direction, model and operation. *)
C8_TokenCountsRecorded ==
  \A j \in DOMAIN history :
    (history[j].ev = "tokens" /\ history[j].response.usage.shape = "ok") =>
      LET u == history[j].response.usage
      IN /\ \E i \in DOMAIN spans :
              /\ spans[i].name \in LlmOperations
              /\ "gen_ai.usage.input_tokens" \in DOMAIN spans[i].attrs
              /\ spans[i].attrs["gen_ai.usage.input_tokens"] = u.prompt_tokens
              /\ spans[i].attrs["gen_ai.usage.output_tokens"] = u.completion_tokens
         /\ \E l \in DOMAIN _token_counter.sums :
              l.type = "input" /\ _token_counter.sums[l] >= u.prompt_tokens
         /\ \E l \in DOMAIN _token_counter.sums :
              l.type = "output" /\ _token_counter.sums[l] >= u.completion_tokens

----------------------------------------------------------------------------
(* add_llm_response_attributes called with any labels on an open span, before or
   after the tracer exists (SpecTok) *)

\* the usage of the responses handed to the recorder
TokUsages ==
  {UsageNone, UsageMalformed} \cup { Usage(p, MaxTokens - p) : p \in 0 .. MaxTokens }
TokResponses ==
  { Completion(u, Choice(Some(OkText), Some("stop")), Some("gpt-4o-mini")) :
      u \in TokUsages }
TokModels == {"", "gpt-4o-mini"}
TokOperations == {"", "llm.completion"}

TokenEvents == { j \in DOMAIN history : history[j].ev = "tokens" }

InitTok ==
  /\ env \in { e \in WrapEnvs : ~e.OPENAI_API_KEY /\ ~e.OTEL_INMEMORY_EXPORTER }
  /\ req = NoRequest
  /\ pc = "idle"
  /\ state = <<>>
  /\ node = "none"
  /\ call = NoCall
  /\ caller = NoOutcome
  /\ spans = << NewSpan("llm.completion") >>
  /\ stack = << 1 >>
  /\ _in_memory_spans = <<>>
  /\ _tracer_initialized = FALSE
  /\ _token_counter = NoCounter
  /\ telemetry = NoTelemetry
  /\ threads = <<>>
  /\ history = <<>>
  /\ response = NoResponse

\* get_tracer(): _init_tracer creates the counter on the first call only
GetTracer ==
  /\ _token_counter' = InitTracerCounter(_tracer_initialized, _token_counter)
  /\ telemetry' = InitTracerTelemetry(_tracer_initialized, telemetry)
  /\ _tracer_initialized' = TRUE
  /\ UNCHANGED << env, threads, req, pc, state, node, call, caller, spans, stack,
                  _in_memory_spans, history, response >>

\* add_llm_response_attributes(span, r, model, operation) on the open span
RecordTokens(r, model, operation) ==
  /\ Cardinality(TokenEvents) < MaxCalls
  /\ LET i == Top(stack)
         a == AddLlmResponseAttributes(spans[i], _token_counter, r, model, operation)
     IN /\ spans' = SetSpan(spans, i, a.span)
        /\ _token_counter' = a.counter
  /\ history' = Append(history,
                       [ev |-> "tokens", response |-> r, model |-> model,
                        operation |-> operation, live |-> _token_counter.created,
                        outcome |-> AddLlmResponseAttributesOutcome(
                                      spans[Top(stack)], _token_counter, r, model,
                                      operation)])
  /\ UNCHANGED << env, threads, telemetry, req, pc, state, node, call, caller, stack, _in_memory_spans,
                  _tracer_initialized, response >>

NextTok ==
  \/ GetTracer
  \/ \E r \in TokResponses, m \in TokModels, o \in TokOperations : RecordTokens(r, m, o)

SpecTok == InitTok /\ [][NextTok]_vars

\* the calls that recorded into the counter under labels l: the counter existed, a
\* model was named, and the response carried counts
RecordingCalls(l) ==
  { j \in TokenEvents :
      /\ history[j].live
      /\ history[j].model # ""
      /\ history[j].model = l.model
      /\ history[j].operation = l.operation
      /\ history[j].response.usage.shape = "ok" }

RECURSIVE SumTokens(_, _)
SumTokens(js, type) ==
  IF js = {} THEN 0
  ELSE LET j == CHOOSE x \in js : TRUE
           u == history[j].response.usage
       IN (IF type = "input" THEN u.prompt_tokens ELSE u.completion_tokens)
            + SumTokens(js \ {j}, type)

AllLabels ==
  { TokenLabels(ty, m, o) : ty \in {"input", "output"}, m \in TokModels,
                            o \in TokOperations }

C9_CounterIsSum ==
  /\ DOMAIN _token_counter.sums \subseteq AllLabels
  /\ \A l \in AllLabels :
       Get(_token_counter.sums, l, 0) = SumTokens(RecordingCalls(l), l.type)

C9_CounterStep ==
  \A l \in DOMAIN _token_counter.sums :
    /\ l \in DOMAIN _token_counter'.sums
    /\ _token_counter'.sums[l] >= _token_counter.sums[l]

(* C9: after any sequence of token-recording calls, the counter's value for each
   label set (direction, model, operation) is the sum of the token counts recorded
   by the earlier calls with those labels, and no call or get_tracer() ever lowers
   it. *)
C9_CounterAccumulates == []C9_CounterIsSum /\ [][C9_CounterStep]_vars

\* two calls with the same labels have added up
C9_Witness ==
  \E l \in DOMAIN _token_counter.sums :
    /\ Cardinality(RecordingCalls(l)) >= 2
    /\ l.type = "input"
    /\ _token_counter.sums[l] = 2 * MaxTokens

----------------------------------------------------------------------------
(* log_llm_prompt_and_response (SpecLog) *)

TruthyTexts == { <<"t", "r", "u", "e">>, <<"1">>, <<"y", "e", "s">> }
DefaultToggleText == << "f", "a", "l", "s", "e" >>
DefaultMaxLengthText == << "1", "0", "0", "0" >>

\* os.getenv("ENABLE_PROMPT_LOGGING", "false").lower() in {"true", "1", "yes"}
EnvLoggingEnabled ==
  Lower(IF env.ENABLE_PROMPT_LOGGING.some THEN env.ENABLE_PROMPT_LOGGING.v
        ELSE DefaultToggleText) \in TruthyTexts

\* int(os.getenv("PROMPT_LOG_MAX_LENGTH", "1000"))
MaxLength ==
  ParseInt(IF env.PROMPT_LOG_MAX_LENGTH.some THEN env.PROMPT_LOG_MAX_LENGTH.v
           ELSE DefaultMaxLengthText)

\* faulty variant: the flag is set from >= instead of >
ContentAttrsOffByOne(text, max) ==
  [text |-> Slice(text, max), length |-> Len(text), truncated |-> Len(text) >= max]

\* the attributes of one content event: text[:max_length], len(text), len(text) > max_length
ContentAttrs(text, max) ==
  [text |-> Slice(text, max), length |-> Len(text), truncated |-> Len(text) > max]

\* the whole function on the span: the gate, then both events inside one try whose
\* except swallows the ValueError of a max length that is no integer
LogLlmPromptAndResponse(span, prompt, completion, enable_content_logging) ==
  LET enabled == IF enable_content_logging.some THEN enable_content_logging.v
                 ELSE EnvLoggingEnabled
  IN IF ~enabled THEN span
     ELSE IF ~MaxLength.ok THEN span
     ELSE AddEvent(AddEvent(span, "gen_ai.content.prompt",
                            ContentAttrs(prompt, MaxLength.v)),
                   "gen_ai.content.completion", ContentAttrs(completion, MaxLength.v))

\* the ValueError of int() on a text that is no integer
MaxLengthError == [cls |-> "ValueError", msg |-> <<>>, id |-> 6]

\* `except Exception: pass` of the logger: the call ends normally and returns None
LogExcept(e) == Returned("None")

\* what log_llm_prompt_and_response gives its caller
LogLlmPromptAndResponseOutcome(prompt, completion, enable_content_logging) ==
  LET enabled == IF enable_content_logging.some THEN enable_content_logging.v
                 ELSE EnvLoggingEnabled
  IN IF enabled /\ ~MaxLength.ok THEN LogExcept(MaxLengthError) ELSE Returned("None")

\* values of ENABLE_PROMPT_LOGGING and PROMPT_LOG_MAX_LENGTH
ToggleTexts ==
  { None, Some(<<"t", "r", "u", "e">>), Some(<<"T", "r", "u", "e">>), Some(<<"1">>),
    Some(<<"Y", "E", "S">>), Some(<<"f", "a", "l", "s", "e">>), Some(<<"0">>),
    Some(<<"o", "n">>), Some(<<>>) }
MaxLengthTexts ==
  { None, Some(<<"2">>), Some(<<" ", "2", " ">>), Some(<<"0">>), Some(<<"-", "1">>),
    Some(<<"a", "b", "c">>), Some(<<>>), Some(<<"1", "_", "0">>) }

LogEnvs ==
  [ AZURE_OPENAI_API_KEY : {FALSE}, OPENAI_API_KEY : {FALSE},
    GITHUB_MODELS_API_KEY : {FALSE}, AZURE_OPENAI_ENDPOINT : {FALSE},
    AZURE_OPENAI_DEPLOYMENT : {FALSE}, OTEL_INMEMORY_EXPORTER : {FALSE},
    ENABLE_PROMPT_LOGGING : ToggleTexts, PROMPT_LOG_MAX_LENGTH : MaxLengthTexts,
    APPINSIGHTS_CONNECTION_STRING : {None} ]

\* prompt and completion texts: around the small maxima and around the default 1000
LogTexts == { Rep("x", n) : n \in {0, 2, 3, 10, 11, 1000, 1001} }
LogSwitches == { None, Some(TRUE), Some(FALSE) }

InitLog ==
  /\ env \in LogEnvs
  /\ req = NoRequest
  /\ pc = "idle"
  /\ state = <<>>
  /\ node = "none"
  /\ call = NoCall
  /\ caller = NoOutcome
  /\ spans = << NewSpan("llm.completion") >>
  /\ stack = << 1 >>
  /\ _in_memory_spans = <<>>
  /\ _tracer_initialized = TRUE
  /\ _token_counter = NewCounter
  /\ telemetry = InitTracerTelemetry(FALSE, NoTelemetry)
  /\ threads = <<>>
  /\ history = <<>>
  /\ response = NoResponse

\* log_llm_prompt_and_response(span, prompt, completion, enable) on the open span
LogContent(prompt, completion, enable) ==
  /\ pc = "idle"
  /\ spans' = SetSpan(spans, Top(stack),
                      LogLlmPromptAndResponse(spans[Top(stack)], prompt, completion,
                                              enable))
  /\ history' = Append(history, [ev |-> "log", prompt |-> prompt,
                                 completion |-> completion, enable |-> enable,
                                 outcome |-> LogLlmPromptAndResponseOutcome(
                                               prompt, completion, enable)])
  /\ pc' = "logged"
  /\ UNCHANGED << env, threads, telemetry, req, state, node, call, caller, stack, _in_memory_spans,
                  _tracer_initialized, _token_counter, response >>

NextLog ==
  \E p \in LogTexts, c \in LogTexts, e \in LogSwitches : LogContent(p, c, e)

SpecLog == InitLog /\ [][NextLog]_vars

----------------------------------------------------------------------------
(* Claims about the content logger (SpecLog) *)

\* the texts of ENABLE_PROMPT_LOGGING that switch logging on
OnTexts ==
  { Some(<<"t", "r", "u", "e">>), Some(<<"T", "r", "u", "e">>), Some(<<"1">>),
    Some(<<"Y", "E", "S">>) }

\* the toggle of a call: the argument when given, else the environment's flag
ToggleOn(h) ==
  \/ h.enable = Some(TRUE)
  \/ h.enable = None /\ env.ENABLE_PROMPT_LOGGING \in OnTexts

\* the texts of PROMPT_LOG_MAX_LENGTH that name a number, and the number
MaxIsNumber ==
  env.PROMPT_LOG_MAX_LENGTH
    \notin { Some(<<"a", "b", "c">>), Some(<<>>) }
ConfiguredMax ==
  CASE env.PROMPT_LOG_MAX_LENGTH = None -> 1000
    [] env.PROMPT_LOG_MAX_LENGTH = Some(<<"2">>) -> 2
    [] env.PROMPT_LOG_MAX_LENGTH = Some(<<" ", "2", " ">>) -> 2
    [] env.PROMPT_LOG_MAX_LENGTH = Some(<<"0">>) -> 0
    [] env.PROMPT_LOG_MAX_LENGTH = Some(<<"-", "1">>) -> 0 - 1
    [] env.PROMPT_LOG_MAX_LENGTH = Some(<<"1", "_", "0">>) -> 10

ContentEvents == spans[1].events

\* the two events are there, in order, and carry the lengths of the texts
TwoContentEvents(h) ==
  /\ Len(ContentEvents) = 2
  /\ ContentEvents[1].name = "gen_ai.content.prompt"
  /\ ContentEvents[2].name = "gen_ai.content.completion"
  /\ ContentEvents[1].attrs.length = Len(h.prompt)
  /\ ContentEvents[2].attrs.length = Len(h.completion)

\* the event carries text cut to max characters, flagged iff text was longer
TruncatedTo(attrs, text, max) ==
  /\ attrs.text = FirstChars(text, max)
  /\ attrs.truncated <=> Len(text) > max

(* C10 as stated: no content event when the toggle is unset or false; when it is
   on, exactly the prompt and the completion event, each with its text truncated to
   the configured maximum length and flagged iff the text is longer than it. *)
C10_ContentEventsFollowToggle ==
  pc = "logged" =>
    LET h == history[1]
    IN /\ ~ToggleOn(h) => ContentEvents = <<>>
       /\ ToggleOn(h) =>
            /\ TwoContentEvents(h)
            /\ MaxIsNumber =>
                 /\ TruncatedTo(ContentEvents[1].attrs, h.prompt, ConfiguredMax)
                 /\ TruncatedTo(ContentEvents[2].attrs, h.completion, ConfiguredMax)

(* C10 amended: no content event when the toggle is unset or false, nor when it is
   on and PROMPT_LOG_MAX_LENGTH is no integer; when it is on and the maximum is an
   integer (1000 when unset), exactly the prompt and the completion event are added,
   each flagged iff its text is longer than the maximum, and carrying the text cut
   to the maximum when that is not negative, and the text without its last -max
   characters when it is. *)
C10_ContentEventsFollowToggleAndMax ==
  pc = "logged" =>
    LET h == history[1]
    IN /\ ~ToggleOn(h) => ContentEvents = <<>>
       /\ (ToggleOn(h) /\ ~MaxIsNumber) => ContentEvents = <<>>
       /\ (ToggleOn(h) /\ MaxIsNumber) =>
            /\ TwoContentEvents(h)
            /\ ContentEvents[1].attrs.truncated <=> Len(h.prompt) > ConfiguredMax
            /\ ContentEvents[2].attrs.truncated <=> Len(h.completion) > ConfiguredMax
            /\ ConfiguredMax >= 0 =>
                 /\ ContentEvents[1].attrs.text = FirstChars(h.prompt, ConfiguredMax)
                 /\ ContentEvents[2].attrs.text = FirstChars(h.completion, ConfiguredMax)
            /\ ConfiguredMax < 0 =>
                 /\ ContentEvents[1].attrs.text
                      = FirstChars(h.prompt, Len(h.prompt) + ConfiguredMax)
                 /\ ContentEvents[2].attrs.text
                      = FirstChars(h.completion, Len(h.completion) + ConfiguredMax)

\* logging switched on by the environment, the default maximum, a prompt of 1001
\* characters cut to 1000 and a completion of 1000 characters left whole
C10_Witness ==
  /\ pc = "logged"
  /\ history[1].enable = None
  /\ env.ENABLE_PROMPT_LOGGING = Some(<<"T", "r", "u", "e">>)
  /\ env.PROMPT_LOG_MAX_LENGTH = None
  /\ Len(history[1].prompt) = 1001
  /\ Len(history[1].completion) = 1000
  /\ Len(ContentEvents) = 2
  /\ Len(ContentEvents[1].attrs.text) = 1000
  /\ ContentEvents[1].attrs.truncated
  /\ ~ContentEvents[2].attrs.truncated

----------------------------------------------------------------------------
(* Telemetry failures: one stage served while exporters, response shapes and the
   content logger fail (SpecTel) *)

\* every shape of a completion: usage, choices and model each absent, malformed or
\* well-formed
ResponseShapes ==
  { Completion(u, c, m) :
      u \in { UsageAbsent, UsageNone, UsageMalformed, Usage(1, MaxTokens) },
      c \in { ChoicesAbsent, ChoicesEmpty, ChoiceNoMessage, ChoiceBadMessage,
              Choice(Some(OkText), Some("stop")), Choice(None, None) },
      m \in { None, Some("gpt-4o-mini") } }

\* environments with a provider key: every connection string, the in-memory exporter
\* on or off, content logging on or left unset, a maximum that is or is not an integer
TelEnvs ==
  [ AZURE_OPENAI_API_KEY : {FALSE}, OPENAI_API_KEY : {TRUE},
    GITHUB_MODELS_API_KEY : {FALSE}, AZURE_OPENAI_ENDPOINT : {FALSE},
    AZURE_OPENAI_DEPLOYMENT : {FALSE}, OTEL_INMEMORY_EXPORTER : BOOLEAN,
    ENABLE_PROMPT_LOGGING : { None, Some(<<"t", "r", "u", "e">>) },
    PROMPT_LOG_MAX_LENGTH : { None, Some(<<"2">>), Some(<<"a", "b", "c">>) },
    APPINSIGHTS_CONNECTION_STRING : ConnectionStrings ]

TelTexts == { Rep("x", n) : n \in {0, 3} }

InitTel ==
  /\ env \in TelEnvs
  /\ req = NoRequest
  /\ pc = "idle"
  /\ state = <<>>
  /\ node = "none"
  /\ call = NoCall
  /\ caller = NoOutcome
  /\ spans = << NewSpan("llm.completion") >>
  /\ stack = << 1 >>
  /\ _in_memory_spans = <<>>
  /\ _tracer_initialized = FALSE
  /\ _token_counter = NoCounter
  /\ telemetry = NoTelemetry
  /\ threads = <<>>
  /\ history = <<>>
  /\ response = NoResponse

\* planner_agent({"task": T}), called once
CallPlanner(T) ==
  /\ Invocations = {}
  /\ CallAgent("planner_agent", T)

NextTel ==
  \/ \E T \in {TaskOf(1, "a")} : CallPlanner(T)
  \/ LlmRequest
  \/ \E r \in ResponseShapes : LlmResponse(r)
  \/ \E e \in ClientErrors : LlmError(e)
  \/ WrapExit
  \/ \E p \in TelTexts, c \in TelTexts, e \in LogSwitches : LogContent(p, c, e)

SpecTel == InitTel /\ [][NextTel]_vars

LogEvents == { j \in DOMAIN history : history[j].ev = "log" }

\* the text _call_llm returns for a completion when no telemetry step interferes: the
\* content of the first choice, or the fallback of the error that reading it raises
TextOfChoices(r) ==
  IF r.choices.shape = "ok"
  THEN IF r.choices.content.some THEN r.choices.content.v ELSE <<>>
  ELSE FallbackHead \o (IF r.choices.shape = "empty" THEN IndexErrorText
                        ELSE AttributeErrorText)

\* the completion with the same choices whose usage and model fields are well-formed
WellFormed(r) == Completion(Usage(1, 1), r.choices, Some("gpt-4o-mini"))

\* get_tracer() has been called
TracerRequested == call # NoCall \/ Invocations # {}

\* C11: telemetry failures are swallowed and never change the request's outcome: on
\* every response shape add_llm_response_attributes returns normally; after
\* get_tracer() the providers and instruments are installed whether or not the Azure
\* exporters could be created; log_llm_prompt_and_response returns normally also when
\* its events could not be built; and the mapping a stage returns holds the text of
\* the completion's choices, the same as for a completion whose telemetry fields are
\* well-formed.
C11_TelemetryFailuresSwallowed ==
  /\ \A j \in TokenEvents : history[j].outcome.kind = "return"
  /\ \A j \in LogEvents : history[j].outcome.kind = "return"
  /\ TracerRequested =>
       /\ _tracer_initialized
       /\ telemetry.tracer_provider # 0
       /\ telemetry.meter_provider # 0
       /\ telemetry._meter # 0
       /\ telemetry._operation_duration # 0
       /\ _token_counter.created
       /\ "azure" \in telemetry.processors
            <=> (HasConnectionString /\ env.APPINSIGHTS_CONNECTION_STRING.v = "valid")
  /\ \A i \in Invocations : \A j \in TokenEvents :
       (j < i /\ history[i].func = "planner_agent") =>
         /\ history[i].seen.kind = "return"
         /\ history[i].seen.value.type = "dict"
         /\ DOMAIN history[i].seen.value.m = {"task", "plan"}
         /\ history[i].seen.value.m["plan"] = TextOfChoices(history[j].response)
         /\ CallLlmCompleted(NewSpan("x"), NewCounter, history[j].response).result
              = CallLlmCompleted(NewSpan("x"), NewCounter,
                                 WellFormed(history[j].response)).result

\* a stage has returned the completion's text although the usage field was malformed
\* and the Azure exporters could not be created, and the content logger has then
\* failed on a maximum that is no integer
C11_Witness ==
  /\ env.APPINSIGHTS_CONNECTION_STRING = Some("invalid")
  /\ \E i \in Invocations : \E j \in TokenEvents :
       /\ j < i
       /\ history[j].response.usage.shape = "malformed"
       /\ history[j].response.choices.shape = "ok"
       /\ history[i].seen.kind = "return"
       /\ history[i].seen.value.m["plan"] = OkText
  /\ \E j \in LogEvents :
       /\ ~MaxLength.ok
       /\ (IF history[j].enable.some THEN history[j].enable.v ELSE EnvLoggingEnabled)

----------------------------------------------------------------------------
(* Claims about the size attributes of traced_span (SpecWrap) *)

\* the number of characters in the values of mapping m, counted one by one
CharCount(m) ==
  Cardinality(UNION { { <<k, n>> : n \in 1..Len(m[k]) } : k \in DOMAIN m })

\* C12: whenever a wrapped call returns a mapping, its span carries state.keys equal to
\* the number of keys and state.content_size equal to the sum of the lengths of the
\* values' strings; when it returns a value that is no mapping, neither attribute is set.
C12_StateSizeAttributes ==
  \A i \in Invocations :
    LET e == history[i]
        attrs == spans[e.span].attrs
    IN e.outcome.kind = "return" =>
         IF e.outcome.value.type = "dict"
         THEN /\ "state.keys" \in DOMAIN attrs
              /\ attrs["state.keys"] = Cardinality(DOMAIN e.outcome.value.m)
              /\ "state.content_size" \in DOMAIN attrs
              /\ attrs["state.content_size"] = CharCount(e.outcome.value.m)
         ELSE /\ "state.keys" \notin DOMAIN attrs
              /\ "state.content_size" \notin DOMAIN attrs

\* one call has returned a mapping of two keys holding three characters, and another
\* has returned a value that is no mapping
C12_Witness ==
  /\ \E i \in Invocations :
       /\ history[i].outcome.kind = "return"
       /\ history[i].outcome.value.type = "dict"
       /\ Cardinality(DOMAIN history[i].outcome.value.m) = 2
       /\ spans[history[i].span].attrs["state.content_size"] = 3
  /\ \E i \in Invocations :
       /\ history[i].outcome.kind = "return"
       /\ history[i].outcome.value.type = "plain"

----------------------------------------------------------------------------
(* get_tracer() called from several threads (SpecInit).  _init_tracer holds no
   lock: a thread may be switched out between any two of its statements. *)

Threads == 1..MaxThreads

\* environments of the initialisation: every connection string, the in-memory
\* exporter on or off
InitEnvs ==
  [ AZURE_OPENAI_API_KEY : {FALSE}, OPENAI_API_KEY : {FALSE},
    GITHUB_MODELS_API_KEY : {FALSE}, AZURE_OPENAI_ENDPOINT : {FALSE},
    AZURE_OPENAI_DEPLOYMENT : {FALSE}, OTEL_INMEMORY_EXPORTER : BOOLEAN,
    ENABLE_PROMPT_LOGGING : {None}, PROMPT_LOG_MAX_LENGTH : {None},
    APPINSIGHTS_CONNECTION_STRING : ConnectionStrings ]

\* a thread outside get_tracer that has made no call yet
IdleThread == [pc |-> "idle", calls |-> 0, k |-> 0]

BodyEvents == { j \in DOMAIN history : history[j].ev = "body" }

\* a process that imported the instrumentation module and has not called get_tracer()
InitThreads ==
  /\ env \in InitEnvs
  /\ req = NoRequest
  /\ pc = "idle"
  /\ state = <<>>
  /\ node = "none"
  /\ call = NoCall
  /\ caller = NoOutcome
  /\ spans = <<>>
  /\ stack = <<>>
  /\ _in_memory_spans = <<>>
  /\ _tracer_initialized = FALSE
  /\ _token_counter = NoCounter
  /\ telemetry = NoTelemetry
  /\ threads = [t \in Threads |-> IdleThread]
  /\ history = <<>>
  /\ response = NoResponse

\* thread t calls get_tracer(), which calls _init_tracer()
GetTracerCall(t) ==
  /\ threads[t].pc = "idle"
  /\ threads[t].calls < MaxGetTracerCalls
  /\ threads' = [threads EXCEPT ![t].pc = "guard", ![t].calls = @ + 1]
  /\ UNCHANGED << env, req, pc, state, node, call, caller, spans, stack,
                  _in_memory_spans, _tracer_initialized, _token_counter, telemetry,
                  history, response >>

\* `if _tracer_initialized: return`: the flag is read; when it is unset the thread
\* enters the body
InitGuard(t) ==
  /\ threads[t].pc = "guard"
  /\ IF _tracer_initialized
     THEN /\ threads' = [threads EXCEPT ![t].pc = "return"]
          /\ history' = history
     ELSE /\ threads' = [threads EXCEPT ![t].pc = "trace",
                                        ![t].k = Cardinality(BodyEvents) + 1]
          /\ history' = Append(history, [ev |-> "body", thread |-> t])
  /\ UNCHANGED << env, req, pc, state, node, call, caller, spans, stack,
                  _in_memory_spans, _tracer_initialized, _token_counter, telemetry,
                  response >>

\* the thread's TracerProvider, with its processors, is handed to
\* trace.set_tracer_provider
InitTraceProvider(t, replaces) ==
  /\ threads[t].pc = "trace"
  /\ telemetry' = TraceProviderStep(telemetry, threads[t].k, replaces)
  /\ threads' = [threads EXCEPT ![t].pc = "meter"]
  /\ UNCHANGED << env, req, pc, state, node, call, caller, spans, stack,
                  _in_memory_spans, _tracer_initialized, _token_counter, history,
                  response >>

\* the thread's MeterProvider is handed to metrics.set_meter_provider
InitMeterProvider(t, replaces) ==
  /\ threads[t].pc = "meter"
  /\ telemetry' = MeterProviderStep(telemetry, threads[t].k, replaces)
  /\ threads' = [threads EXCEPT ![t].pc = "instruments"]
  /\ UNCHANGED << env, req, pc, state, node, call, caller, spans, stack,
                  _in_memory_spans, _tracer_initialized, _token_counter, history,
                  response >>

\* _meter, _token_counter and _operation_duration are assigned
InitInstruments(t, fresh) ==
  /\ threads[t].pc = "instruments"
  /\ telemetry' = InstrumentsStep(telemetry, threads[t].k)
  /\ _token_counter' = CounterStep(_token_counter, fresh)
  /\ threads' = [threads EXCEPT ![t].pc = "flag"]
  /\ UNCHANGED << env, req, pc, state, node, call, caller, spans, stack,
                  _in_memory_spans, _tracer_initialized, history, response >>

\* `_tracer_initialized = True`, the last statement of the body
InitFlag(t) ==
  /\ threads[t].pc = "flag"
  /\ _tracer_initialized' = TRUE
  /\ threads' = [threads EXCEPT ![t].pc = "return"]
  /\ UNCHANGED << env, req, pc, state, node, call, caller, spans, stack,
                  _in_memory_spans, _token_counter, telemetry, history, response >>

\* `return trace.get_tracer(__name__)`
GetTracerReturn(t) ==
  /\ threads[t].pc = "return"
  /\ threads' = [threads EXCEPT ![t].pc = "idle"]
  /\ UNCHANGED << env, req, pc, state, node, call, caller, spans, stack,
                  _in_memory_spans, _tracer_initialized, _token_counter, telemetry,
                  history, response >>

NextThreads ==
  \E t \in Threads :
    \/ GetTracerCall(t)
    \/ InitGuard(t)
    \/ \E replaces \in BOOLEAN : InitTraceProvider(t, replaces)
    \/ \E replaces \in BOOLEAN : InitMeterProvider(t, replaces)
    \/ \E fresh \in BOOLEAN : InitInstruments(t, fresh)
    \/ InitFlag(t)
    \/ GetTracerReturn(t)

SpecInit == InitThreads /\ [][NextThreads]_vars

\* C13: telemetry initialisation is a guarded singleton: for any number and any
\* interleaving of get_tracer callers, concurrent first calls included, the body of
\* _init_tracer that installs the providers and creates the instruments executes at
\* most once per process.
C13_InitBodyAtMostOnce == Cardinality(BodyEvents) <= 1
====
